---- MODULE Spec2Model ----
(***************************************************************************)
(* A model of the Spark pod initializer control loop of                    *)
(* pkg/initializer/initializer.go: the informer callbacks onPodAdded and   *)
(* onPodDeleted, the rate limited work queue they feed, the workers        *)
(* (processNextItem / syncSparkPod), the mutation steps and the strategic  *)
(* merge patch that submits them.                                          *)
(*                                                                         *)
(* Go strings that the code takes apart are sequences; a missing map key   *)
(* or absent string is Nil, a nil pointer to an object is NilObj.          *)
(*                                                                         *)
(* Spec is the running system (after Run has started the informer and the  *)
(* workers, before the stop signal); SpecWriters adds a writer that        *)
(* changes the pods next to it; SpecConverge is the running system under   *)
(* fair scheduling with pods that stay; SpecMutate applies the mutation    *)
(* alone to a bounded family of pods; SpecRegister calls                   *)
(* addInitializationConfig on a bounded family of registration records;    *)
(* SpecRun is Run from its call to its return, SpecRunFair the same under  *)
(* fair scheduling of the program's goroutines.                            *)
(***************************************************************************)
EXTENDS Integers, Sequences, FiniteSets, TLC

(***************************************************************************)
(* Program constants (initializer.go, const block).                        *)
(***************************************************************************)
initializerName == "pod-initializer.spark-operator.k8s.io"
sparkDriverRole == "driver"
sparkExecutorRole == "executor"

\* nil of a string-valued optional, and nil of a pointer to an object
Nil == "nil"
NilObj == [nil |-> TRUE]

(***************************************************************************)
(* Bounds of the model.                                                    *)
(***************************************************************************)
\* number of entries of a pending-initializer list drawn in SpecMutate
MaxPending == 3
\* number of worker goroutines passed to Run
NumWorkers == 2
\* number of entries of a registration record drawn in SpecRegister
MaxEntries == 2
\* number of calls of addInitializationConfig in SpecRegister
MaxCalls == 2
\* number of pod creations (add events) in one behaviour
MaxCreates == 1
\* value at which the rate limiter's failure counter saturates in the model
MaxFailures == 1

Workers == 1..NumWorkers
Namespaces == {"ns"}
PodNames == {"a"}
OtherInitializers == {"x.example.io", "y.example.io"}

(***************************************************************************)
(* Pods.  labels is the value of the spark-role label (Nil when the key is *)
(* missing); initializers is Nil or a record holding the pending list;     *)
(* annotations holds what the annotation resolvers of pkg/config and       *)
(* pkg/secret find; field is a part of the object the initializer never    *)
(* writes; resourceVersion is the server's version counter.                *)
(***************************************************************************)
NoAnnotations ==
    [ownerReference |-> Nil, sparkConfigMap |-> Nil, hadoopConfigMap |-> Nil,
     configMaps |-> <<>>, gcpSecret |-> Nil, gcpSecretMountPath |-> Nil,
     secrets |-> <<>>]

Container == [name |-> "c0", volumeMounts |-> <<>>]

BasePod(ns, name) ==
    [namespace |-> ns, name |-> name, labels |-> Nil, initializers |-> NilObj,
     annotations |-> NoAnnotations, containers |-> <<Container>>,
     volumes |-> <<>>, ownerReferences |-> <<>>, field |-> "f0",
     resourceVersion |-> 1]

(***************************************************************************)
(* Queue keys.                                                             *)
(***************************************************************************)
\* fmt.Sprintf("%s/%s", pod.Namespace, pod.Name)
getQueueKey(pod) == <<pod.namespace, "/", pod.name>>

\* strings.Split(key, "/"), on a key given as a sequence of pieces
RECURSIVE Split(_, _)
Split(s, cur) ==
    IF s = <<>> THEN <<cur>>
    ELSE IF Head(s) = "/" THEN <<cur>> \o Split(Tail(s), <<>>)
    ELSE Split(Tail(s), Append(cur, Head(s)))

Join(piece) == IF Len(piece) = 1 THEN piece[1] ELSE ""

getNamespaceName(key) ==
    LET parts == Split(key, <<>>) IN
    IF Len(parts) # 2
    THEN [namespace |-> "", name |-> "", err |-> TRUE]
    ELSE [namespace |-> Join(parts[1]), name |-> Join(parts[2]), err |-> FALSE]

(***************************************************************************)
(* Classification.                                                         *)
(***************************************************************************)
RECURSIVE PendingHasSelf(_)
PendingHasSelf(pending) ==
    IF pending = <<>> THEN FALSE
    ELSE IF Head(pending) = initializerName THEN TRUE
    ELSE PendingHasSelf(Tail(pending))

isInitializerPresent(pod) ==
    IF pod.initializers = NilObj THEN FALSE
    ELSE PendingHasSelf(pod.initializers.pending)

\* a classifier that knows the driver role only
isSparkPodDriverOnly(pod) ==
    /\ pod.labels # Nil
    /\ pod.labels = sparkDriverRole

isSparkPod(pod) ==
    /\ pod.labels # Nil
    /\ (pod.labels = sparkDriverRole \/ pod.labels = sparkExecutorRole)

(***************************************************************************)
(* Marker removal.                                                         *)
(***************************************************************************)
RECURSIVE RemoveSelfLoop(_)
RemoveSelfLoop(pending) ==
    IF pending = <<>> THEN <<>>
    ELSE IF Head(pending) # initializerName
         THEN <<Head(pending)>> \o RemoveSelfLoop(Tail(pending))
         ELSE RemoveSelfLoop(Tail(pending))

\* the loop of a removal that stops at the first entry of this initializer
RECURSIVE RemoveFirstSelf(_)
RemoveFirstSelf(pending) ==
    IF pending = <<>> THEN <<>>
    ELSE IF Head(pending) = initializerName THEN Tail(pending)
    ELSE <<Head(pending)>> \o RemoveFirstSelf(Tail(pending))

\* a removal that takes one entry of this initializer off the list
removeSelfFirstOnly(pod) ==
    IF pod.initializers = NilObj THEN pod
    ELSE LET updated == RemoveFirstSelf(pod.initializers.pending) IN
         IF Len(updated) = 0
         THEN [pod EXCEPT !.initializers = NilObj]
         ELSE [pod EXCEPT !.initializers.pending = updated]

\* a removal that leaves an emptied pending list in place
removeSelfKeepEmpty(pod) ==
    IF pod.initializers = NilObj THEN pod
    ELSE [pod EXCEPT !.initializers.pending = RemoveSelfLoop(@)]

removeSelf(pod) ==
    IF pod.initializers = NilObj THEN pod
    ELSE LET updated == RemoveSelfLoop(pod.initializers.pending) IN
         IF Len(updated) > 0 /\ Len(updated) = Len(pod.initializers.pending)
         THEN pod
         ELSE IF Len(updated) = 0
              THEN [pod EXCEPT !.initializers = NilObj]
              ELSE [pod EXCEPT !.initializers.pending = updated]

(***************************************************************************)
(* Owner attachment.  The annotation value is "valid", "truncated" or any  *)
(* other string; Unmarshal yields the decoded reference and whether        *)
(* decoding failed.  A failed decode leaves the reference as far as it was *)
(* filled in.                                                              *)
(***************************************************************************)
EmptyOwnerReference == [kind |-> "", name |-> "", uid |-> ""]

Unmarshal(str) ==
    IF str = "valid"
    THEN [ref |-> [kind |-> "SparkApplication", name |-> "app", uid |-> "u1"],
          err |-> FALSE]
    ELSE IF str = "truncated"
    THEN [ref |-> [kind |-> "SparkApplication", name |-> "", uid |-> ""],
          err |-> TRUE]
    ELSE [ref |-> EmptyOwnerReference, err |-> TRUE]

addOwnerReference(pod) ==
    IF pod.annotations.ownerReference # Nil
    THEN LET r == Unmarshal(pod.annotations.ownerReference) IN
         \* the error is logged and the reference is appended all the same
         [pod EXCEPT !.ownerReferences = Append(@, r.ref)]
    ELSE pod

(***************************************************************************)
(* Volumes and mounts.  The helpers of pkg/config and pkg/secret append    *)
(* one volume to the pod and one mount to the container.                   *)
(***************************************************************************)
SparkConfigMapVolumeName == <<"spark-config-volume">>
HadoopConfigMapVolumeName == <<"hadoop-config-volume">>
ServiceAccountSecretVolumeName == <<"gcp-service-account-secret-volume">>
DefaultSparkConfDir == "/etc/spark/conf"
DefaultHadoopConfDir == "/etc/hadoop/conf"

AddVolumeToPod(volumeName, source, pod) ==
    [pod EXCEPT !.volumes = Append(@, [name |-> volumeName, source |-> source])]

MountToContainer(volumeName, mountPath, pod) ==
    [pod EXCEPT !.containers[1].volumeMounts =
                    Append(@, [name |-> volumeName, mountPath |-> mountPath])]

\* one iteration of a range loop over a resolver's map: name -> mount path
RECURSIVE MountEach(_, _)
MountEach(entries, pod) ==
    IF entries = <<>> THEN pod
    ELSE LET e == Head(entries)
             volumeName == <<e.name, "-volume">>
         IN MountEach(Tail(entries),
                      MountToContainer(volumeName, e.mountPath,
                                       AddVolumeToPod(volumeName, e.name, pod)))

handleConfigMaps(pod) ==
    LET a == pod.annotations
        p1 == IF a.sparkConfigMap # Nil
              THEN MountToContainer(SparkConfigMapVolumeName, DefaultSparkConfDir,
                       AddVolumeToPod(SparkConfigMapVolumeName, a.sparkConfigMap, pod))
              ELSE pod
        p2 == IF a.hadoopConfigMap # Nil
              THEN MountToContainer(HadoopConfigMapVolumeName, DefaultHadoopConfDir,
                       AddVolumeToPod(HadoopConfigMapVolumeName, a.hadoopConfigMap, p1))
              ELSE p1
    IN MountEach(a.configMaps, p2)

handleSecrets(pod) ==
    LET a == pod.annotations
        p1 == IF a.gcpSecret # Nil
              THEN MountToContainer(ServiceAccountSecretVolumeName, a.gcpSecretMountPath,
                       AddVolumeToPod(ServiceAccountSecretVolumeName, a.gcpSecret, pod))
              ELSE pod
    IN MountEach(a.secrets, p1)

\* initialization tasks that release the pod and add nothing to it
InitializeMarkerOnly(pod) == removeSelf(pod)

\* the initialization tasks of syncSparkPod, in the order it performs them
Initialize(pod) ==
    removeSelf(handleSecrets(handleConfigMaps(addOwnerReference(pod))))

(***************************************************************************)
(* The strategic merge patch of patchPod.  A patch names only what differs *)
(* between the original and the modified object: for a list merged by key  *)
(* (pending initializers by name, owner references by uid, volumes by      *)
(* name, volume mounts by mount path) the entries added and the entries    *)
(* deleted; for the initializers object, null when the modified object has *)
(* none; for any other field, its new value.  Absent is the value Nil.     *)
(***************************************************************************)
RECURSIVE RemoveOne(_, _)
RemoveOne(seq, x) ==
    IF seq = <<>> THEN <<>>
    ELSE IF Head(seq) = x THEN Tail(seq)
    ELSE <<Head(seq)>> \o RemoveOne(Tail(seq), x)

\* the entries of modified left over once each entry of original is matched
RECURSIVE ListAdditions(_, _)
ListAdditions(original, modified) ==
    IF original = <<>> THEN modified
    ELSE ListAdditions(Tail(original), RemoveOne(modified, Head(original)))

Range(seq) == {seq[i] : i \in 1..Len(seq)}

Mounts(pod) == IF pod.containers = <<>> THEN <<>> ELSE pod.containers[1].volumeMounts

\* a patch that asserts the whole modified object
CreateFullPatch(original, modified) ==
    [initializers |-> IF modified.initializers = NilObj THEN [op |-> "null"]
                      ELSE [op |-> "delete", names |-> {initializerName}],
     ownerReferences |-> modified.ownerReferences,
     volumes |-> modified.volumes,
     volumeMounts |-> Mounts(modified),
     field |-> modified.field]

CreateTwoWayMergePatch(original, modified) ==
    [initializers |->
        IF modified.initializers = original.initializers THEN [op |-> "keep"]
        ELSE IF modified.initializers = NilObj THEN [op |-> "null"]
        ELSE [op |-> "delete",
              names |-> Range(original.initializers.pending)
                           \ Range(modified.initializers.pending)],
     ownerReferences |-> ListAdditions(original.ownerReferences, modified.ownerReferences),
     volumes |-> ListAdditions(original.volumes, modified.volumes),
     volumeMounts |-> ListAdditions(Mounts(original), Mounts(modified)),
     field |-> IF modified.field = original.field THEN Nil ELSE modified.field]

\* merge one entry into a list by its key: replace the entry of that key, or append
RECURSIVE MergeOne(_, _, _)
MergeOne(list, e, K) ==
    IF list = <<>> THEN <<e>>
    ELSE IF Head(list)[K] = e[K] THEN <<e>> \o Tail(list)
    ELSE <<Head(list)>> \o MergeOne(Tail(list), e, K)

RECURSIVE MergeList(_, _, _)
MergeList(list, adds, K) ==
    IF adds = <<>> THEN list
    ELSE MergeList(MergeOne(list, Head(adds), K), Tail(adds), K)

RECURSIVE DeleteNamed(_, _)
DeleteNamed(pending, names) ==
    IF pending = <<>> THEN <<>>
    ELSE IF Head(pending) \in names THEN DeleteNamed(Tail(pending), names)
    ELSE <<Head(pending)>> \o DeleteNamed(Tail(pending), names)

\* the merge keys the API types declare for these lists
KeyUid == "uid"
KeyName == "name"
KeyMountPath == "mountPath"

\* a patch that adds mounts needs the container it names
PatchValid(patch, pod) == patch.volumeMounts = <<>> \/ pod.containers # <<>>

\* the server's merge of a patch into the object it holds
ApplyPatch(patch, pod) ==
    LET p1 == IF patch.initializers.op = "keep" \/ pod.initializers = NilObj THEN pod
              ELSE IF patch.initializers.op = "null"
              THEN [pod EXCEPT !.initializers = NilObj]
              ELSE [pod EXCEPT !.initializers.pending =
                                   DeleteNamed(@, patch.initializers.names)]
        p2 == [p1 EXCEPT !.ownerReferences = MergeList(@, patch.ownerReferences, KeyUid),
                         !.volumes = MergeList(@, patch.volumes, KeyName)]
        p3 == IF patch.volumeMounts = <<>> THEN p2
              ELSE [p2 EXCEPT !.containers[1].volumeMounts =
                                  MergeList(@, patch.volumeMounts, KeyMountPath)]
        p4 == IF patch.field = Nil THEN p3 ELSE [p3 EXCEPT !.field = patch.field]
    IN IF p4 = pod THEN pod ELSE [p4 EXCEPT !.resourceVersion = pod.resourceVersion + 1]

(***************************************************************************)
(* State.                                                                  *)
(***************************************************************************)
VARIABLES
    template,      \* the pod the workload's owner creates (and creates again)
    live,          \* the pods the API server holds, by key; NilObj when there is none
    events,        \* add/delete events the informer has not yet delivered
    created,       \* pods created so far
    queue,         \* the rate limiting work queue
    worker,        \* each worker's position in processNextItem and its locals
    dispatcher,    \* the event handling goroutine: idle, or inside updatePod
    crashed,       \* the event handler panicked
    deletedSince,  \* key -> a delete event was handled and no add event since
    mIn, mOut, mPath,  \* SpecMutate: a pod, its mutated copy, the path that made it
    reg,           \* the InitializerConfiguration the API server holds, or NilObj
    run,           \* Run's position and its locals
    errCh,         \* the error channel Run was given: capacity, buffer, values received
    stopCh         \* the stop channel Run was given: closed or not

vars == <<template, live, events, created, queue, worker, dispatcher, crashed,
          deletedSince, mIn, mOut, mPath, reg, run, errCh, stopCh>>

Keys == {<<ns, "/", n>> : ns \in Namespaces, n \in PodNames}
NonPod == [kind |-> "DeletedFinalStateUnknown"]

(***************************************************************************)
(* The pods the environment creates.                                       *)
(***************************************************************************)
PodTemplates(ns, name) ==
    LET base == BasePod(ns, name) IN
    { \* driver, another initializer pending behind this one, owner and Spark conf
      [base EXCEPT !.labels = sparkDriverRole,
                   !.initializers = [pending |-> <<initializerName, "x.example.io">>],
                   !.annotations.ownerReference = "valid",
                   !.annotations.sparkConfigMap = "conf"],
      \* executor, owner annotation that does not decode, one secret
      [base EXCEPT !.labels = sparkExecutorRole,
                   !.initializers = [pending |-> <<initializerName>>],
                   !.annotations.ownerReference = "garbage",
                   !.annotations.secrets = <<[name |-> "s", mountPath |-> "/s"]>>],
      \* no role label
      [base EXCEPT !.initializers = [pending |-> <<initializerName>>]],
      \* a role label of another value, on a pod that asks for the Spark conf
      [base EXCEPT !.labels = "history-server",
                   !.initializers = [pending |-> <<"x.example.io", initializerName>>],
                   !.annotations.sparkConfigMap = "conf"],
      \* driver that this initializer is not pending on
      [base EXCEPT !.labels = sparkDriverRole,
                   !.annotations.sparkConfigMap = "conf"],
      \* driver without containers
      [base EXCEPT !.labels = sparkDriverRole,
                   !.initializers = [pending |-> <<initializerName>>],
                   !.containers = <<>>] }

(***************************************************************************)
(* The work queue: a FIFO of keys, the dirty set (keys that need           *)
(* processing), the processing set (keys handed to a worker and not yet    *)
(* done), the keys waiting out a rate limit delay, and the rate limiter's  *)
(* failure count per key.                                                  *)
(***************************************************************************)
EmptyQueue ==
    [items |-> <<>>, dirty |-> {}, processing |-> {}, waiting |-> {},
     failures |-> [k \in Keys |-> 0], shuttingDown |-> FALSE]

QAdd(q, k) ==
    IF q.shuttingDown \/ k \in q.dirty THEN q
    ELSE [q EXCEPT !.dirty = @ \cup {k},
                   !.items = IF k \in q.processing THEN @ ELSE Append(@, k)]

QGet(q) ==
    [q EXCEPT !.items = Tail(@),
              !.processing = @ \cup {Head(q.items)},
              !.dirty = @ \ {Head(q.items)}]

\* a Done that does not put back a key that was added while it was processed
QDoneDropsDirty(q, k) == [q EXCEPT !.processing = @ \ {k}]

QDone(q, k) ==
    [q EXCEPT !.processing = @ \ {k},
              !.items = IF k \in q.dirty THEN Append(@, k) ELSE @]

QForget(q, k) == [q EXCEPT !.failures[k] = 0]

QAddRateLimited(q, k) ==
    LET counted == [q EXCEPT !.failures[k] = IF @ < MaxFailures THEN @ + 1 ELSE @] IN
    IF q.shuttingDown THEN counted
    ELSE [counted EXCEPT !.waiting = @ \cup {k}]

IdleWorker ==
    [pc |-> "get", key |-> <<>>, orig |-> NilObj, mod |-> NilObj, fetch |-> Nil,
     err |-> FALSE, submitted |-> FALSE, before |-> Nil, after |-> Nil]

IdleDispatcher == [pc |-> "idle", pod |-> NilObj]

(***************************************************************************)
(* The registration record and Run.  An InitializerConfiguration is the    *)
(* list of the names of its initializers and the server's version counter. *)
(* Run's locals are err (Nil, or the call that failed) and the config that *)
(* addInitializationConfig fetched; started tells that the pod controller  *)
(* goroutine was started, i counts the worker goroutines started, deletes  *)
(* the calls of deleteInitializationConfig, calls those of                 *)
(* addInitializationConfig, and oks those of them that returned nil.       *)
(***************************************************************************)
InitializerConfig(names, version) == [initializers |-> names, resourceVersion |-> version]

\* sparkPodInitializerConfig, as addInitializationConfig builds it
sparkPodInitializerConfig == InitializerConfig(<<initializerName>>, 1)

\* Run called and not yet at its first statement
NewRun ==
    [pc |-> "add_get", existing |-> NilObj, err |-> Nil, started |-> FALSE, i |-> 0,
     deletes |-> 0, calls |-> 1, oks |-> 0]

\* Run blocked in <-stopCh, the controller and all workers started
WaitingRun ==
    [NewRun EXCEPT !.pc = "wait", !.started = TRUE, !.i = NumWorkers, !.oks = 1]

\* a worker goroutine that Run has not started yet
NewWorker == [IdleWorker EXCEPT !.pc = "new"]

Channel(cap) == [cap |-> cap, buf |-> <<>>, received |-> <<>>]

Init ==
    /\ template \in UNION {PodTemplates(ns, n) : ns \in Namespaces, n \in PodNames}
    /\ live = [k \in Keys |-> NilObj]
    /\ events = <<>>
    /\ created = 0
    /\ queue = EmptyQueue
    /\ worker = [w \in Workers |-> IdleWorker]
    /\ dispatcher = IdleDispatcher
    /\ crashed = FALSE
    /\ deletedSince = [k \in Keys |-> FALSE]
    /\ mIn = NilObj /\ mOut = NilObj /\ mPath = Nil
    /\ reg = sparkPodInitializerConfig
    /\ run = WaitingRun
    /\ errCh = Channel(0)
    /\ stopCh = FALSE

mutateVars == <<mIn, mOut, mPath>>
runVars == <<reg, run, errCh, stopCh>>
envVars == <<template, live, events, created>>

(***************************************************************************)
(* The environment: pods come and go, another writer changes a pod, and    *)
(* the informer queues an event for each creation and deletion.  The       *)
(* payload of an event is the pod, or an object of another type (such as   *)
(* the tombstone the informer passes when it missed the deletion).         *)
(***************************************************************************)
CreatePod ==
    LET k == <<template.namespace, "/", template.name>> IN
    /\ ~crashed
    /\ live[k] = NilObj
    /\ created < MaxCreates
    /\ live' = [live EXCEPT ![k] = template]
    /\ \E obj \in {template, NonPod} :
          events' = Append(events, [type |-> "add", obj |-> obj])
    /\ created' = created + 1
    /\ UNCHANGED <<template, queue, worker, dispatcher, crashed, deletedSince, mutateVars,
                   runVars>>

DeletePod(k) ==
    /\ ~crashed
    /\ live[k] # NilObj
    /\ live' = [live EXCEPT ![k] = NilObj]
    /\ \E obj \in {live[k], NonPod} :
          events' = Append(events, [type |-> "delete", obj |-> obj])
    /\ UNCHANGED <<template, created, queue, worker, dispatcher, crashed, deletedSince,
                   mutateVars, runVars>>

OtherWriter(k) ==
    /\ ~crashed
    /\ live[k] # NilObj
    /\ live[k].field = "f0"
    /\ live' = [live EXCEPT ![k].field = "f1", ![k].resourceVersion = @ + 1]
    /\ UNCHANGED <<template, events, created, queue, worker, dispatcher, crashed,
                   deletedSince, mutateVars, runVars>>

(***************************************************************************)
(* The informer callbacks.  One goroutine delivers the events in order, so *)
(* a handler takes the oldest event once the handler before it returned.   *)
(* It delivers from the moment Run has started the controller, and goes on *)
(* with the events it already holds when the stop channel is closed.       *)
(***************************************************************************)
\* an inline path that runs all the initialization tasks
handleNonSparkPodInitialize(pod) == Initialize(pod)

\* handleNonSparkPod up to the call of updatePod: the copy, with removeSelf applied
handleNonSparkPod(pod) == removeSelf(pod)

\* pod, ok := obj.(*apiv1.Pod): a payload of another type leaves pod nil
AsPod(obj) == IF obj = NonPod THEN NilObj ELSE obj

onPodAdded ==
    /\ ~crashed
    /\ run.started
    /\ dispatcher.pc = "idle"
    /\ events # <<>>
    /\ Head(events).type = "add"
    /\ events' = Tail(events)
    /\ LET pod == AsPod(Head(events).obj)
       IN IF pod = NilObj
          THEN \* received non-pod object: logged, return
               UNCHANGED <<queue, dispatcher, deletedSince>>
          ELSE /\ deletedSince' = [deletedSince EXCEPT ![getQueueKey(pod)] = FALSE]
               /\ IF isInitializerPresent(pod)
                  THEN IF isSparkPod(pod)
                       THEN /\ queue' = QAddRateLimited(queue, getQueueKey(pod))
                            /\ UNCHANGED dispatcher
                       ELSE \* handleNonSparkPod: copy, removeSelf, call updatePod
                            /\ dispatcher' = [pc |-> "update",
                                              pod |-> handleNonSparkPod(pod)]
                            /\ UNCHANGED queue
                  ELSE UNCHANGED <<queue, dispatcher>>
    /\ UNCHANGED <<template, live, created, worker, crashed, mutateVars, runVars>>

\* the API server's whole-object replace: it checks the resource version
UpdateAccepted(newPod) ==
    LET k == <<newPod.namespace, "/", newPod.name>> IN
    /\ k \in Keys
    /\ live[k] # NilObj
    /\ live[k].resourceVersion = newPod.resourceVersion

\* updatePod, called by handleNonSparkPod; onPodAdded drops the error it returns
updatePod ==
    /\ ~crashed
    /\ dispatcher.pc = "update"
    /\ \/ /\ UpdateAccepted(dispatcher.pod)
          /\ live' = [live EXCEPT ![getQueueKey(dispatcher.pod)] =
                         [dispatcher.pod EXCEPT !.resourceVersion = @ + 1]]
       \/ UNCHANGED live
    /\ dispatcher' = IdleDispatcher
    /\ UNCHANGED <<template, events, created, queue, worker, crashed, deletedSince,
                   mutateVars, runVars>>

onPodDeleted ==
    /\ ~crashed
    /\ run.started
    /\ dispatcher.pc = "idle"
    /\ events # <<>>
    /\ Head(events).type = "delete"
    /\ events' = Tail(events)
    /\ LET pod == AsPod(Head(events).obj)
       IN IF pod = NilObj
          THEN \* logged, but no return: isSparkPod reads pod.Labels through nil
               /\ crashed' = TRUE
               /\ UNCHANGED <<queue, deletedSince>>
          ELSE /\ UNCHANGED crashed
               /\ IF isSparkPod(pod)
                  THEN LET key == getQueueKey(pod) IN
                       /\ queue' = QDone(QForget(queue, key), key)
                       /\ deletedSince' = [deletedSince EXCEPT ![key] = TRUE]
                  ELSE UNCHANGED <<queue, deletedSince>>
    /\ UNCHANGED <<template, live, created, worker, dispatcher, mutateVars, runVars>>

\* the delaying queue's timer: a key's rate limit delay is over
DelayElapsed(k) ==
    /\ ~crashed
    /\ k \in queue.waiting
    /\ queue' = QAdd([queue EXCEPT !.waiting = @ \ {k}], k)
    /\ UNCHANGED <<envVars, worker, dispatcher, crashed, deletedSince, mutateVars, runVars>>

(***************************************************************************)
(* A worker: processNextItem, one step per call that other goroutines can  *)
(* interleave with.                                                        *)
(***************************************************************************)
workerFrame == <<template, events, created, dispatcher, crashed, deletedSince, mutateVars, runVars>>

\* wait.Until(ic.runWorker, time.Second, stopCh): the goroutine looks at the
\* stop channel before it calls runWorker
wait_Until(w) ==
    /\ ~crashed
    /\ worker[w].pc = "until"
    /\ worker' = [worker EXCEPT ![w].pc = IF stopCh THEN "stopped" ELSE "get"]
    /\ UNCHANGED <<live, queue, workerFrame>>

\* key, quit := ic.queue.Get(): blocks while the queue is empty and not shut
\* down; quit once it is shut down and empty, and runWorker returns to wait.Until
processNextItem_Get(w) ==
    /\ ~crashed
    /\ worker[w].pc = "get"
    /\ IF queue.items # <<>>
       THEN /\ queue' = QGet(queue)
            /\ worker' = [worker EXCEPT ![w] =
                   [IdleWorker EXCEPT !.pc = "sync", !.key = Head(queue.items)]]
       ELSE /\ queue.shuttingDown
            /\ worker' = [worker EXCEPT ![w].pc = "until"]
            /\ UNCHANGED queue
    /\ UNCHANGED <<live, workerFrame>>

\* a reconciler that returns the not-found error like any other
NeverBenign(outcome) == FALSE

\* errors.IsNotFound(err) on the error of the pod Get
IsNotFoundBenign(outcome) == outcome = "notfound"

\* what the pod Get can answer for a key
FetchOutcomes(k) ==
    IF k \in Keys /\ live[k] # NilObj THEN {"found", "error"} ELSE {"notfound", "error"}

\* a reconciler that goes on to mutate a pod without containers
ContainersNotChecked(pod) == FALSE

\* len(modifiedPod.Spec.Containers) <= 0
NoContainerFound(pod) == Len(pod.containers) <= 0

\* syncSparkPod up to the call of patchPod
syncSparkPod_Get(w) ==
    /\ ~crashed
    /\ worker[w].pc = "sync"
    /\ LET nn == getNamespaceName(worker[w].key)
           k == <<nn.namespace, "/", nn.name>>
       IN \E outcome \in FetchOutcomes(k) :
            worker' = [worker EXCEPT ![w] =
              IF outcome # "found"
              THEN [@ EXCEPT !.pc = "result", !.fetch = outcome,
                             !.err = ~IsNotFoundBenign(outcome)]
              ELSE IF NoContainerFound(live[k])
              THEN [@ EXCEPT !.pc = "result", !.fetch = outcome, !.orig = live[k],
                             !.err = TRUE]
              ELSE [@ EXCEPT !.pc = "patch", !.fetch = outcome, !.orig = live[k],
                             !.mod = Initialize(live[k])]]
    /\ UNCHANGED <<live, queue, workerFrame>>

\* patchPod: the patch is computed and submitted; the server applies it or not,
\* and an applied patch can still be reported as failed (the answer is lost)
patchPod(w) ==
    /\ ~crashed
    /\ worker[w].pc = "patch"
    /\ LET original == worker[w].orig
           k == <<original.namespace, "/", original.name>>
           patch == CreateTwoWayMergePatch(original, worker[w].mod)
       IN \/ /\ live[k] # NilObj
             /\ PatchValid(patch, live[k])
             /\ live' = [live EXCEPT ![k] = ApplyPatch(patch, live[k])]
             /\ \E lost \in BOOLEAN :
                  worker' = [worker EXCEPT ![w] =
                     [@ EXCEPT !.pc = "result", !.submitted = TRUE, !.err = lost,
                               !.before = live[k].field, !.after = live'[k].field]]
          \/ /\ UNCHANGED live
             /\ worker' = [worker EXCEPT ![w] =
                     [@ EXCEPT !.pc = "result", !.submitted = TRUE, !.err = TRUE]]
    /\ UNCHANGED <<queue, workerFrame>>

\* a worker that forgets a failed key instead of queueing it again
processNextItem_ResultDrop(w) ==
    /\ ~crashed
    /\ worker[w].pc = "result"
    /\ queue' = QForget(queue, worker[w].key)
    /\ worker' = [worker EXCEPT ![w].pc = "done"]
    /\ UNCHANGED <<live, workerFrame>>

\* err == nil: queue.Forget(key); otherwise queue.AddRateLimited(key)
processNextItem_Result(w) ==
    /\ ~crashed
    /\ worker[w].pc = "result"
    /\ IF ~worker[w].err
       THEN /\ queue' = QForget(queue, worker[w].key)
            /\ worker' = [worker EXCEPT ![w].pc = "done"]
       ELSE /\ queue' = QAddRateLimited(queue, worker[w].key)
            /\ worker' = [worker EXCEPT ![w].pc = "done"]
    /\ UNCHANGED <<live, workerFrame>>

\* defer ic.queue.Done(key); the worker loops back to Get
processNextItem_Done(w) ==
    /\ ~crashed
    /\ worker[w].pc = "done"
    /\ queue' = QDone(queue, worker[w].key)
    /\ worker' = [worker EXCEPT ![w] = IdleWorker]
    /\ UNCHANGED <<live, workerFrame>>

(***************************************************************************)
(* Run, one step per call that other goroutines can interleave with.       *)
(***************************************************************************)
runFrame == <<envVars, dispatcher, crashed, deletedSince, mutateVars>>

\* a registration that appends this initializer whatever the record holds
foundNever(config) == FALSE

\* a registration that takes any record it finds as holding this initializer
foundAlways(config) == TRUE

\* the loop over existingConfig.Initializers that sets found
found(config) ==
    \E i \in 1..Len(config.initializers) : config.initializers[i] = initializerName

\* icClient.Get and what addInitializationConfig does with its answer
addInitializationConfig_Get ==
    /\ ~crashed
    /\ run.pc = "add_get"
    /\ \/ \* the answer of the server
          IF reg = NilObj
          THEN run' = [run EXCEPT !.pc = "add_create"]
          ELSE IF found(reg)
          THEN run' = [run EXCEPT !.pc = "add_ret", !.existing = reg, !.err = Nil,
                                  !.oks = @ + 1]
          ELSE run' = [run EXCEPT !.pc = "add_update",
                                  !.existing = [reg EXCEPT !.initializers =
                                                   Append(@, initializerName)]]
       \/ \* API error
          run' = [run EXCEPT !.pc = "add_ret", !.err = "add"]
    /\ UNCHANGED <<reg, errCh, stopCh, queue, worker, runFrame>>

\* icClient.Create(&sparkPodInitializerConfig)
addInitializationConfig_Create ==
    /\ ~crashed
    /\ run.pc = "add_create"
    /\ \/ /\ reg = NilObj
          /\ reg' = sparkPodInitializerConfig
          /\ run' = [run EXCEPT !.pc = "add_ret", !.err = Nil, !.oks = @ + 1]
       \/ /\ UNCHANGED reg
          /\ run' = [run EXCEPT !.pc = "add_ret", !.err = "add"]
    /\ UNCHANGED <<errCh, stopCh, queue, worker, runFrame>>

\* icClient.Update(existingConfig): the server checks the resource version
addInitializationConfig_Update ==
    /\ ~crashed
    /\ run.pc = "add_update"
    /\ \/ /\ reg # NilObj
          /\ reg.resourceVersion = run.existing.resourceVersion
          /\ reg' = [run.existing EXCEPT !.resourceVersion = @ + 1]
          /\ run' = [run EXCEPT !.pc = "add_ret", !.err = Nil, !.oks = @ + 1]
       \/ /\ UNCHANGED reg
          /\ run' = [run EXCEPT !.pc = "add_ret", !.err = "add"]
    /\ UNCHANGED <<errCh, stopCh, queue, worker, runFrame>>

\* a Run that goes on after a failed registration
Run_CheckErrIgnored ==
    /\ ~crashed
    /\ run.pc = "add_ret"
    /\ run' = [run EXCEPT !.pc = "start_controller"]
    /\ UNCHANGED <<reg, errCh, stopCh, queue, worker, runFrame>>

\* err := ic.addInitializationConfig(); if err != nil { errCh <- ...; return }
Run_CheckErr ==
    /\ ~crashed
    /\ run.pc = "add_ret"
    /\ run' = [run EXCEPT !.pc = IF run.err # Nil THEN "send" ELSE "start_controller"]
    /\ UNCHANGED <<reg, errCh, stopCh, queue, worker, runFrame>>

\* go ic.sparkPodController.Run(stopCh)
Run_StartController ==
    /\ ~crashed
    /\ run.pc = "start_controller"
    /\ run' = [run EXCEPT !.pc = "start_workers", !.started = TRUE]
    /\ UNCHANGED <<reg, errCh, stopCh, queue, worker, runFrame>>

\* one iteration of the loop: go wait.Until(ic.runWorker, time.Second, stopCh)
Run_StartWorker ==
    /\ ~crashed
    /\ run.pc = "start_workers"
    /\ run.i < NumWorkers
    /\ worker' = [worker EXCEPT ![run.i + 1] = [IdleWorker EXCEPT !.pc = "until"]]
    /\ run' = [run EXCEPT !.i = @ + 1,
                          !.pc = IF run.i + 1 < NumWorkers THEN "start_workers" ELSE "wait"]
    /\ UNCHANGED <<reg, errCh, stopCh, queue, runFrame>>

\* the owner of the stop channel closes it
Stop ==
    /\ ~crashed
    /\ ~stopCh
    /\ stopCh' = TRUE
    /\ UNCHANGED <<reg, run, errCh, queue, worker, runFrame>>

\* <-stopCh
Run_Stopped ==
    /\ ~crashed
    /\ run.pc = "wait"
    /\ stopCh
    /\ run' = [run EXCEPT !.pc = "delete"]
    /\ UNCHANGED <<reg, errCh, stopCh, queue, worker, runFrame>>

\* deleteInitializationConfig: the record is deleted whole, or the call fails
deleteInitializationConfig ==
    /\ ~crashed
    /\ run.pc = "delete"
    /\ \/ /\ reg # NilObj
          /\ reg' = NilObj
          /\ run' = [run EXCEPT !.pc = "send", !.err = Nil, !.deletes = @ + 1]
       \/ /\ UNCHANGED reg
          /\ run' = [run EXCEPT !.pc = "send", !.err = "delete", !.deletes = @ + 1]
    /\ UNCHANGED <<errCh, stopCh, queue, worker, runFrame>>

\* a Run that reports success whatever the deregistration returned
OutcomeAlwaysNil(err) == Nil

\* the value of errCh <- fmt.Errorf(...) or errCh <- nil
Outcome(err) == err

\* the send on a channel with room in its buffer
Run_Send ==
    /\ ~crashed
    /\ run.pc = "send"
    /\ Len(errCh.buf) < errCh.cap
    /\ errCh' = [errCh EXCEPT !.buf = Append(@, Outcome(run.err))]
    /\ run' = [run EXCEPT !.pc = "return"]
    /\ UNCHANGED <<reg, stopCh, queue, worker, runFrame>>

\* the reader of the error channel takes a value: the oldest of the buffer,
\* or, with nothing buffered, the value Run is blocked sending
Receive ==
    /\ ~crashed
    /\ IF errCh.buf # <<>>
       THEN /\ errCh' = [errCh EXCEPT !.buf = Tail(@),
                                     !.received = Append(@, Head(errCh.buf))]
            /\ UNCHANGED run
       ELSE /\ run.pc = "send"
            /\ errCh' = [errCh EXCEPT !.received = Append(@, Outcome(run.err))]
            /\ run' = [run EXCEPT !.pc = "return"]
    /\ UNCHANGED <<reg, stopCh, queue, worker, runFrame>>

\* return: the deferred ic.queue.ShutDown() runs
Run_Return ==
    /\ ~crashed
    /\ run.pc = "return"
    /\ queue' = [queue EXCEPT !.shuttingDown = TRUE]
    /\ run' = [run EXCEPT !.pc = "done"]
    /\ UNCHANGED <<reg, errCh, stopCh, worker, runFrame>>

Next ==
    \/ CreatePod
    \/ \E k \in Keys : DeletePod(k)
    \/ onPodAdded
    \/ updatePod
    \/ onPodDeleted
    \/ \E k \in Keys : DelayElapsed(k)
    \/ \E w \in Workers : processNextItem_Get(w)
    \/ \E w \in Workers : syncSparkPod_Get(w)
    \/ \E w \in Workers : patchPod(w)
    \/ \E w \in Workers : processNextItem_Result(w)
    \/ \E w \in Workers : processNextItem_Done(w)

Spec == Init /\ [][Next]_vars

\* the same system next to a writer that changes a field the initializer leaves alone
NextWriters ==
    \/ Next
    \/ \E k \in Keys : OtherWriter(k)

SpecWriters == Init /\ [][NextWriters]_vars

(***************************************************************************)
(* The running system with pods that stay once created, every goroutine    *)
(* scheduled, and an API server that answers the Get and the Patch of a    *)
(* worker that keeps trying.                                               *)
(***************************************************************************)
NextConverge ==
    \/ CreatePod
    \/ \E k \in Keys : OtherWriter(k)
    \/ onPodAdded
    \/ updatePod
    \/ \E k \in Keys : DelayElapsed(k)
    \/ \E w \in Workers : processNextItem_Get(w)
    \/ \E w \in Workers : syncSparkPod_Get(w)
    \/ \E w \in Workers : patchPod(w)
    \/ \E w \in Workers : processNextItem_Result(w)
    \/ \E w \in Workers : processNextItem_Done(w)

FairConverge ==
    /\ WF_vars(onPodAdded)
    /\ WF_vars(updatePod)
    /\ \A k \in Keys : WF_vars(DelayElapsed(k))
    /\ \A w \in Workers :
          /\ WF_vars(processNextItem_Get(w))
          /\ WF_vars(syncSparkPod_Get(w))
          /\ SF_vars(syncSparkPod_Get(w) /\ worker'[w].fetch = "found")
          /\ WF_vars(patchPod(w))
          /\ SF_vars(patchPod(w) /\ ~worker'[w].err)
          /\ WF_vars(processNextItem_Result(w))
          /\ WF_vars(processNextItem_Done(w))

SpecConverge == Init /\ [][NextConverge]_vars /\ FairConverge

(***************************************************************************)
(* The whole of Run: from its call, on each state the registration record  *)
(* may be in, through the start of the controller and the workers, to the  *)
(* stop signal, the deregistration and the return.                         *)
(***************************************************************************)
RunConfigs ==
    {NilObj, InitializerConfig(<<"x.example.io">>, 1),
     InitializerConfig(<<"x.example.io", initializerName>>, 1)}

\* capacities of the error channel the caller may pass
ChannelCaps == {0, 1}

InitRun ==
    /\ template \in {t \in PodTemplates("ns", "a") :
                        t.annotations.sparkConfigMap # Nil /\ t.initializers # NilObj}
    /\ live = [k \in Keys |-> NilObj]
    /\ events = <<>>
    /\ created = 0
    /\ queue = EmptyQueue
    /\ worker = [w \in Workers |-> NewWorker]
    /\ dispatcher = IdleDispatcher
    /\ crashed = FALSE
    /\ deletedSince = [k \in Keys |-> FALSE]
    /\ mIn = NilObj /\ mOut = NilObj /\ mPath = Nil
    /\ reg \in RunConfigs
    /\ run = NewRun
    /\ errCh \in {Channel(c) : c \in ChannelCaps}
    /\ stopCh = FALSE

NextRun ==
    \/ CreatePod
    \/ onPodAdded
    \/ updatePod
    \/ \E k \in Keys : DelayElapsed(k)
    \/ \E w \in Workers : wait_Until(w)
    \/ \E w \in Workers : processNextItem_Get(w)
    \/ \E w \in Workers : syncSparkPod_Get(w)
    \/ \E w \in Workers : patchPod(w)
    \/ \E w \in Workers : processNextItem_Result(w)
    \/ \E w \in Workers : processNextItem_Done(w)
    \/ addInitializationConfig_Get
    \/ addInitializationConfig_Create
    \/ addInitializationConfig_Update
    \/ Run_CheckErr
    \/ Run_StartController
    \/ Run_StartWorker
    \/ Stop
    \/ Run_Stopped
    \/ deleteInitializationConfig
    \/ Run_Send
    \/ Receive
    \/ Run_Return

SpecRun == InitRun /\ [][NextRun]_vars

\* Every goroutine of the program that can take a step is scheduled: Run, the
\* event handler, the queue's timer and each worker.  Nothing obliges the
\* environment to create a pod, to close the stop channel or to read the
\* error channel.
FairRun ==
    /\ WF_vars(addInitializationConfig_Get)
    /\ WF_vars(addInitializationConfig_Create)
    /\ WF_vars(addInitializationConfig_Update)
    /\ WF_vars(Run_CheckErr)
    /\ WF_vars(Run_StartController)
    /\ WF_vars(Run_StartWorker)
    /\ WF_vars(Run_Stopped)
    /\ WF_vars(deleteInitializationConfig)
    /\ WF_vars(Run_Send)
    /\ WF_vars(Run_Return)
    /\ WF_vars(onPodAdded)
    /\ WF_vars(updatePod)
    /\ \A k \in Keys : WF_vars(DelayElapsed(k))
    /\ \A w \in Workers :
          /\ WF_vars(wait_Until(w))
          /\ WF_vars(processNextItem_Get(w))
          /\ WF_vars(syncSparkPod_Get(w))
          /\ WF_vars(patchPod(w))
          /\ WF_vars(processNextItem_Result(w))
          /\ WF_vars(processNextItem_Done(w))

SpecRunFair == SpecRun /\ FairRun

(***************************************************************************)
(* The mutation alone, on every pod of a bounded family: what syncSparkPod *)
(* hands to patchPod and what handleNonSparkPod hands to updatePod.        *)
(***************************************************************************)
RECURSIVE SeqsUpTo(_, _)
SeqsUpTo(S, n) ==
    IF n = 0 THEN {<<>>}
    ELSE LET shorter == SeqsUpTo(S, n - 1) IN
         shorter \cup {Append(q, x) : q \in shorter, x \in S}

MutateInputs ==
    LET base == [BasePod("ns", "a") EXCEPT !.annotations.ownerReference = "valid",
                                           !.annotations.sparkConfigMap = "conf"]
        lists == SeqsUpTo({initializerName} \cup OtherInitializers, MaxPending)
    IN {[base EXCEPT !.labels = role, !.initializers = i] :
           role \in {Nil, sparkDriverRole},
           i \in {NilObj} \cup {[pending |-> l] : l \in lists}}

InitMutate ==
    /\ template = BasePod("ns", "a")
    /\ live = [k \in Keys |-> NilObj]
    /\ events = <<>>
    /\ created = 0
    /\ queue = EmptyQueue
    /\ worker = [w \in Workers |-> IdleWorker]
    /\ dispatcher = IdleDispatcher
    /\ crashed = FALSE
    /\ deletedSince = [k \in Keys |-> FALSE]
    /\ mIn \in MutateInputs
    /\ mOut = NilObj
    /\ mPath = Nil
    /\ reg = sparkPodInitializerConfig
    /\ run = WaitingRun
    /\ errCh = Channel(0)
    /\ stopCh = FALSE

\* syncSparkPod, lines 256-260: the initialization tasks on the copy
MutateQueued ==
    /\ mPath = Nil
    /\ mOut' = Initialize(mIn)
    /\ mPath' = "queued"
    /\ UNCHANGED <<envVars, queue, worker, dispatcher, crashed, deletedSince, mIn,
                   runVars>>

\* handleNonSparkPod: removeSelf on the copy
MutateInline ==
    /\ mPath = Nil
    /\ mOut' = removeSelf(mIn)
    /\ mPath' = "inline"
    /\ UNCHANGED <<envVars, queue, worker, dispatcher, crashed, deletedSince, mIn,
                   runVars>>

\* removeSelf once more, on the pod the first pass produced
MutateAgain ==
    /\ mPath \in {"queued", "inline"}
    /\ mIn' = mOut
    /\ mOut' = removeSelf(mOut)
    /\ mPath' = "again"
    /\ UNCHANGED <<envVars, queue, worker, dispatcher, crashed, deletedSince, runVars>>

NextMutate == MutateQueued \/ MutateInline \/ MutateAgain

SpecMutate == InitMutate /\ [][NextMutate]_vars

(***************************************************************************)
(* addInitializationConfig alone, called again and again, on every state   *)
(* of the registration record of a bounded family: absent, without this    *)
(* initializer, with it.                                                   *)
(***************************************************************************)
SelfEntries(config) ==
    Cardinality({i \in 1..Len(config.initializers) :
                    config.initializers[i] = initializerName})

RegisterConfigs ==
    {NilObj} \cup
    {c \in {InitializerConfig(l, 1) :
               l \in SeqsUpTo({initializerName} \cup OtherInitializers, MaxEntries)} :
        SelfEntries(c) <= 1}

InitRegister ==
    /\ template = BasePod("ns", "a")
    /\ live = [k \in Keys |-> NilObj]
    /\ events = <<>>
    /\ created = 0
    /\ queue = EmptyQueue
    /\ worker = [w \in Workers |-> NewWorker]
    /\ dispatcher = IdleDispatcher
    /\ crashed = FALSE
    /\ deletedSince = [k \in Keys |-> FALSE]
    /\ mIn = NilObj /\ mOut = NilObj /\ mPath = Nil
    /\ reg \in RegisterConfigs
    /\ run = NewRun
    /\ errCh = Channel(0)
    /\ stopCh = FALSE

\* the caller calls addInitializationConfig once more
CallAgain ==
    /\ run.pc = "add_ret"
    /\ run.calls < MaxCalls
    /\ run' = [run EXCEPT !.pc = "add_get", !.calls = @ + 1, !.existing = NilObj,
                          !.err = Nil]
    /\ UNCHANGED <<reg, errCh, stopCh, queue, worker, runFrame>>

NextRegister ==
    \/ addInitializationConfig_Get
    \/ addInitializationConfig_Create
    \/ addInitializationConfig_Update
    \/ CallAgain

SpecRegister == InitRegister /\ [][NextRegister]_vars

(***************************************************************************)
(* Properties.                                                             *)
(***************************************************************************)
HasSentinel(pod) ==
    /\ pod.initializers # NilObj
    /\ \E i \in 1..Len(pod.initializers.pending) :
          pod.initializers.pending[i] = initializerName

IsWorkload(pod) == pod.labels \in {"driver", "executor"}

\* a handler takes the oldest event in this step
Handles(type) ==
    /\ events # <<>>
    /\ Head(events).type = type
    /\ events' = Tail(events)

\* C1: on an add event for a pod, (1) sentinel pending and role driver or
\* executor: the pod's namespace/name key is put into the queue (rate limited)
\* and the inline path is not entered; (2) sentinel pending and any other or no
\* role: the inline path is entered and the queue is left alone; (3) no
\* sentinel: neither the queue nor the inline path nor any pod is touched.
ClassificationOnAdd ==
    [][(Handles("add") /\ Head(events).obj # NonPod) =>
          LET pod == Head(events).obj
              key == <<pod.namespace, "/", pod.name>>
          IN /\ (HasSentinel(pod) /\ IsWorkload(pod)) =>
                    /\ key \in queue'.waiting
                    /\ dispatcher' = IdleDispatcher
                    /\ live' = live
             /\ (HasSentinel(pod) /\ ~IsWorkload(pod)) =>
                    /\ dispatcher'.pc = "update"
                    /\ dispatcher'.pod.name = pod.name
                    /\ queue' = queue
             /\ ~HasSentinel(pod) =>
                    /\ queue' = queue
                    /\ dispatcher' = IdleDispatcher
                    /\ live' = live]_vars

\* an executor with the sentinel was created, its add event handled, and its
\* key waits in the queue while no worker has taken anything yet
ClassifiedToQueue ==
    /\ template.labels = sparkExecutorRole
    /\ HasSentinel(template)
    /\ created = 1
    /\ events = <<>>
    /\ <<template.namespace, "/", template.name>> \in queue.waiting
    /\ \A w \in Workers : worker[w].pc = "get"

\* C2: removeSelf yields the pending list with every entry of this
\* initializer's name removed and the others kept in order, and a pod whose
\* list comes out empty has no initializers object at all; for the copy the
\* queued path patches from, for the pod that patch leaves on the server, and
\* for the copy the inline path submits.
RemoveSelfExact ==
    mPath # Nil =>
       LET NotSelf(name) == name # initializerName
           expected == IF mIn.initializers = NilObj THEN <<>>
                       ELSE SelectSeq(mIn.initializers.pending, NotSelf)
           Exact(pod) == IF expected = <<>>
                         THEN pod.initializers = NilObj
                         ELSE /\ pod.initializers # NilObj
                              /\ pod.initializers.pending = expected
       IN /\ Exact(mOut)
          /\ mPath = "queued" =>
                Exact(ApplyPatch(CreateTwoWayMergePatch(mIn, mOut), mIn))

\* the sentinel stood between two other entries, and twice over in a list of
\* nothing else
RemoveSelfApplied ==
    /\ mPath = "queued"
    /\ mIn.initializers # NilObj
    /\ mIn.initializers.pending \in
          {<<"x.example.io", initializerName, "y.example.io">>,
           <<initializerName, initializerName>>}
    /\ mOut.initializers \in {NilObj, [pending |-> <<"x.example.io", "y.example.io">>]}

InFlight(w) == worker[w].pc \in {"sync", "patch", "result", "done"}

\* C3: no two workers are between Get and Done for the same key.
PerKeyMutualExclusion ==
    \A w1, w2 \in Workers :
       (w1 # w2 /\ InFlight(w1) /\ InFlight(w2)) => worker[w1].key # worker[w2].key

\* worker w takes a key from the queue in this step
Delivered(w) == worker[w].pc = "get" /\ worker'[w].pc = "sync"

\* C4: once a delete event for a workload pod has been handled, and until an
\* add event for the same key is handled, the queue hands that key to no worker.
DeleteClearsQueue ==
    [][\A w \in Workers : Delivered(w) => ~deletedSince[worker'[w].key]]_vars

\* C5: handling an add or delete event whose payload is not a pod calls nothing
\* on the queue and nothing on the API server, and the handler returns.
MalformedEventsDropped ==
    [][((Handles("add") \/ Handles("delete")) /\ Head(events).obj = NonPod) =>
          /\ queue' = queue
          /\ live' = live
          /\ dispatcher' = IdleDispatcher
          /\ crashed' = FALSE]_vars

Queued(q, k) == k \in q.waiting \/ k \in q.dirty

\* C6: a worker that holds a key goes on to a result for it; on no error it
\* resets the key's failure count and puts nothing into the queue; on an error
\* it puts the key back (rate limited); either way it then calls Done and
\* returns to Get, the key no longer marked as processing by it.
WorkerRetryProtocol ==
    [][\A w \in Workers :
          LET k == worker[w].key IN
          /\ (worker[w].pc \in {"sync", "patch"} /\ worker'[w] # worker[w]) =>
                /\ worker'[w].pc \in {"patch", "result"}
                /\ worker'[w].key = k
                /\ queue' = queue
          /\ (worker[w].pc = "result" /\ worker'[w] # worker[w]) =>
                /\ worker'[w].pc = "done"
                /\ worker'[w].key = k
                /\ worker'[w].err = worker[w].err
                /\ IF worker[w].err
                   THEN /\ k \in queue'.waiting
                        /\ queue'.failures[k] >= queue.failures[k]
                        /\ queue'.failures[k] > 0
                   ELSE /\ queue'.failures[k] = 0
                        /\ queue'.waiting = queue.waiting
                        /\ queue'.dirty = queue.dirty
                        /\ queue'.items = queue.items
                /\ queue'.processing = queue.processing
          /\ (worker[w].pc = "done" /\ worker'[w] # worker[w]) =>
                /\ worker'[w].pc = "get"
                /\ queue'.processing = queue.processing \ {k}
                /\ queue'.waiting = queue.waiting
                /\ Queued(queue, k) => Queued(queue', k)]_vars

\* a worker whose reconciliation failed has put its key back and is about to
\* call Done
FailedKeyRequeued ==
    \E w \in Workers :
       /\ worker[w].pc = "done"
       /\ worker[w].err
       /\ worker[w].key \in queue.waiting

\* what the mutation added to the copy of the fetched pod
AddedNothing(w) ==
    /\ worker[w].mod.ownerReferences = worker[w].orig.ownerReferences
    /\ worker[w].mod.volumes = worker[w].orig.volumes
    /\ worker[w].mod.containers = worker[w].orig.containers

\* C7: owner references, volumes and mounts are added only to a fetched pod
\* that still carries the sentinel.
MarkerGate ==
    \A w \in Workers :
       (worker[w].pc = "patch" /\ ~HasSentinel(worker[w].orig)) => AddedNothing(w)

\* C8: a patch that the server applied left the field the initializer does not
\* touch as the server held it, whatever the fetched copy said.
NonDestructivePatch ==
    \A w \in Workers : worker[w].before # Nil => worker[w].after = worker[w].before

\* the field was changed between the worker's fetch and its patch, and the
\* patch was applied and took the sentinel off
PatchedAfterOtherWrite ==
    \E w \in Workers :
       /\ worker[w].pc \in {"result", "done"}
       /\ worker[w].before # Nil
       /\ worker[w].before # worker[w].orig.field
       /\ HasSentinel(worker[w].orig)
       /\ ~worker[w].err

\* C9: with an owner-reference annotation that does not decode, the mutated
\* copy has the owner references of the fetched pod.
MalformedOwnerSkipped ==
    \A w \in Workers :
       (/\ worker[w].pc = "patch"
        /\ worker[w].orig.annotations.ownerReference # Nil
        /\ Unmarshal(worker[w].orig.annotations.ownerReference).err)
       => worker[w].mod.ownerReferences = worker[w].orig.ownerReferences

\* C10: a fetch that finds no pod ends the reconciliation without error and
\* without a patch or any other write, and the worker then resets the key's
\* failure count and puts nothing into the queue; any other fetch error ends it
\* with an error, equally without a write, and the worker puts the key back.
BenignNotFound ==
    /\ [](\A w \in Workers :
            /\ worker[w].fetch = "notfound" => (~worker[w].err /\ ~worker[w].submitted)
            /\ worker[w].fetch = "error" => (worker[w].err /\ ~worker[w].submitted))
    /\ [][\A w \in Workers :
            LET k == worker[w].key IN
            /\ (worker[w].pc = "sync" /\ worker'[w] # worker[w]) =>
                  /\ live' = live
                  /\ live[k] = NilObj => worker'[w].fetch \in {"notfound", "error"}
                  /\ worker'[w].fetch = "notfound" => live[k] = NilObj
            /\ (worker[w].pc = "result" /\ worker'[w].pc = "done") =>
                  /\ worker[w].fetch = "notfound" =>
                        /\ queue'.failures[k] = 0
                        /\ queue'.waiting = queue.waiting
                        /\ queue'.dirty = queue.dirty
                        /\ queue'.items = queue.items
                  /\ worker[w].fetch = "error" => k \in queue'.waiting]_vars

\* a worker fetched a key whose pod is gone and has forgotten the key
NotFoundForgotten ==
    \E w \in Workers :
       /\ worker[w].pc = "done"
       /\ worker[w].fetch = "notfound"
       /\ live[worker[w].key] = NilObj
       /\ queue.failures[worker[w].key] = 0
       /\ worker[w].key \notin queue.waiting

\* C11: a fetch that finds a pod without containers ends the reconciliation
\* with an error and without a patch, the pod on the server staying as it is;
\* the worker then puts the key back (rate limited) and does not reset its
\* failure count; this is so at every attempt.
ZeroContainerPodRetried ==
    /\ [](\A w \in Workers :
            (worker[w].orig # NilObj /\ worker[w].orig.containers = <<>>) =>
               /\ worker[w].pc \in {"result", "done"}
               /\ worker[w].err
               /\ ~worker[w].submitted)
    /\ [][\A w \in Workers :
            LET k == worker[w].key IN
            /\ (/\ worker[w].pc = "sync"
                /\ worker'[w].fetch = "found"
                /\ live[k].containers = <<>>) =>
                  /\ worker'[w].pc = "result"
                  /\ worker'[w].err
                  /\ worker'[w].orig = live[k]
                  /\ live' = live
            /\ (/\ worker[w].pc = "result"
                /\ worker'[w].pc = "done"
                /\ worker[w].orig # NilObj
                /\ worker[w].orig.containers = <<>>) =>
                  /\ live' = live
                  /\ k \in queue'.waiting
                  /\ queue'.failures[k] > 0]_vars

\* a worker failed on a pod without containers and has put the key back, the
\* pod still carrying the sentinel
ZeroContainerKeyWaits ==
    \E w \in Workers :
       /\ worker[w].pc = "done"
       /\ worker[w].orig # NilObj
       /\ worker[w].orig.containers = <<>>
       /\ live[worker[w].key] # NilObj
       /\ HasSentinel(live[worker[w].key])
       /\ worker[w].key \in queue.waiting

\* the key is nowhere in the queue and no worker holds it
NoQueueEntry(k) ==
    /\ \A i \in 1..Len(queue.items) : queue.items[i] # k
    /\ k \notin queue.dirty \cup queue.processing \cup queue.waiting
    /\ \A w \in Workers : worker[w].key # k

\* C12: the inline path is entered only by the add event of a pod with the
\* sentinel and no recognized role; it submits one update and returns; what it
\* submits is the event's pod with the pending list changed (the sentinel
\* gone) and nothing else; the server then holds either what it held or the
\* submitted object; the queue is left alone, a pod of no recognized role
\* never has a queue entry, and a failed update is followed by no other.
InlinePathOnce ==
    /\ [](~IsWorkload(template) => NoQueueEntry(getQueueKey(template)))
    /\ [][/\ (Handles("add") /\ Head(events).obj # NonPod
              /\ HasSentinel(Head(events).obj) /\ ~IsWorkload(Head(events).obj)) =>
                dispatcher'.pc = "update"
          /\ (dispatcher.pc = "idle" /\ dispatcher'.pc = "update") =>
                /\ Handles("add")
                /\ Head(events).obj # NonPod
                /\ LET pod == Head(events).obj
                       sent == dispatcher'.pod
                   IN /\ HasSentinel(pod) /\ ~IsWorkload(pod)
                      /\ ~HasSentinel(sent)
                      /\ sent = [pod EXCEPT !.initializers = sent.initializers]
                      /\ sent.volumes = pod.volumes
                      /\ sent.containers = pod.containers
                      /\ sent.ownerReferences = pod.ownerReferences
                /\ queue' = queue
                /\ live' = live
          /\ (dispatcher.pc = "update" /\ dispatcher' # dispatcher) =>
                LET k == getQueueKey(dispatcher.pod) IN
                /\ dispatcher' = IdleDispatcher
                /\ queue' = queue
                /\ events' = events
                /\ \/ live' = live
                   \/ live' = [live EXCEPT ![k] =
                                  [dispatcher.pod EXCEPT !.resourceVersion = @ + 1]]]_vars

\* the update of a pod that asks for a volume and has another initializer
\* pending was accepted: the server holds the pod without the sentinel, with
\* the other initializer still pending and without any volume
InlineUpdateAccepted ==
    LET k == getQueueKey(template) IN
    /\ ~IsWorkload(template)
    /\ template.annotations.sparkConfigMap # Nil
    /\ dispatcher = IdleDispatcher
    /\ events = <<>>
    /\ live[k] # NilObj
    /\ live[k].initializers = [pending |-> <<"x.example.io">>]
    /\ live[k].volumes = <<>>
    /\ live[k].resourceVersion = template.resourceVersion + 1

SentinelCount(pod) ==
    IF pod.initializers = NilObj THEN 0
    ELSE Cardinality({i \in 1..Len(pod.initializers.pending) :
                         pod.initializers.pending[i] = initializerName})

\* C18: a pod whose pending list names this initializer exactly once comes
\* out of the mutation, on either path, without the sentinel; and marker
\* removal applied to a pod that a first pass has already processed finds no
\* sentinel and returns the pod as it was given.
IdempotentMarkerRemoval ==
    /\ (mPath \in {"queued", "inline"} /\ SentinelCount(mIn) = 1) => ~HasSentinel(mOut)
    /\ mPath = "again" => (~HasSentinel(mIn) /\ mOut = mIn)

\* marker removal was applied again to a processed pod that still has the
\* other initializers pending
RemovedAgain ==
    /\ mPath = "again"
    /\ mIn.initializers = [pending |-> <<"x.example.io", "y.example.io">>]
    /\ mOut = mIn

\* the volumes and the mounts that a pod's annotations ask for
RequestedVolumes(a) ==
    (IF a.sparkConfigMap # Nil THEN {SparkConfigMapVolumeName} ELSE {})
    \cup (IF a.hadoopConfigMap # Nil THEN {HadoopConfigMapVolumeName} ELSE {})
    \cup (IF a.gcpSecret # Nil THEN {ServiceAccountSecretVolumeName} ELSE {})
    \cup {<<a.configMaps[i].name, "-volume">> : i \in 1..Len(a.configMaps)}
    \cup {<<a.secrets[i].name, "-volume">> : i \in 1..Len(a.secrets)}

RequestedMountPaths(a) ==
    (IF a.sparkConfigMap # Nil THEN {DefaultSparkConfDir} ELSE {})
    \cup (IF a.hadoopConfigMap # Nil THEN {DefaultHadoopConfDir} ELSE {})
    \cup (IF a.gcpSecret # Nil THEN {a.gcpSecretMountPath} ELSE {})
    \cup {a.configMaps[i].mountPath : i \in 1..Len(a.configMaps)}
    \cup {a.secrets[i].mountPath : i \in 1..Len(a.secrets)}

RequestedPresent(pod, a) ==
    /\ RequestedVolumes(a) \subseteq {pod.volumes[i].name : i \in 1..Len(pod.volumes)}
    /\ RequestedMountPaths(a) \subseteq
          {Mounts(pod)[i].mountPath : i \in 1..Len(Mounts(pod))}

\* C20: a step that takes the sentinel off a workload pod on the server is the
\* patch of a worker, and leaves the pod with every volume and mount that the
\* annotations of the snapshot that worker fetched ask for; and a patch that
\* the server did not apply leaves the pod, its sentinel included, as it was.
AtomicRelease ==
    [][\A k \in Keys :
          /\ (/\ live[k] # NilObj /\ live'[k] # NilObj
              /\ IsWorkload(live[k])
              /\ HasSentinel(live[k]) /\ ~HasSentinel(live'[k])) =>
                \E w \in Workers :
                   /\ worker[w].pc = "patch" /\ worker'[w].pc = "result"
                   /\ worker[w].key = k
                   /\ RequestedPresent(live'[k], worker[w].orig.annotations)
          /\ \A w \in Workers :
                (/\ worker[w].pc = "patch" /\ worker'[w].pc = "result"
                 /\ worker[w].key = k
                 /\ worker'[w].before = Nil) => live' = live]_vars

\* a worker's patch was applied to a driver that asks for the Spark conf: the
\* server holds it without the sentinel and with the volume and its mount
ReleasedWithVolumes ==
    \E w \in Workers :
       LET k == worker[w].key IN
       /\ worker[w].pc = "result"
       /\ worker[w].before # Nil
       /\ HasSentinel(worker[w].orig)
       /\ worker[w].orig.annotations.sparkConfigMap # Nil
       /\ live[k] # NilObj
       /\ ~HasSentinel(live[k])
       /\ \E i \in 1..Len(live[k].volumes) :
             live[k].volumes[i].name = SparkConfigMapVolumeName
       /\ \E i \in 1..Len(Mounts(live[k])) :
             Mounts(live[k])[i].mountPath = DefaultSparkConfDir

\* C13: once a call of addInitializationConfig has returned nil the record
\* exists and names this initializer exactly once, and from then on a call
\* neither creates nor updates and the record stays as it is; a step that
\* changes the record creates it with this initializer as its only entry or
\* appends this initializer to the entries it had, all of them kept.
RegistrationConvergence ==
    /\ [](run.oks >= 1 => (reg # NilObj /\ SelfEntries(reg) = 1))
    /\ [][/\ run.oks >= 1 =>
                /\ reg' = reg
                /\ run'.pc \notin {"add_create", "add_update"}
          /\ reg' # reg =>
                IF reg = NilObj
                THEN reg'.initializers = <<initializerName>>
                ELSE /\ SelfEntries(reg) = 0
                     /\ reg' # NilObj
                     /\ reg'.initializers = Append(reg.initializers, initializerName)]_vars

\* a record of two other entries got this initializer appended by the first
\* call, and the second call has returned nil as well
RegisteredTwice ==
    /\ run.calls = 2
    /\ run.oks = 2
    /\ run.pc = "add_ret"
    /\ reg = InitializerConfig(<<"x.example.io", "y.example.io", initializerName>>, 2)

\* the values sent on the error channel so far, received or still buffered
Emitted == errCh.received \o errCh.buf

Running == run.started \/ \E w \in Workers : worker[w].pc \notin {"new", "stopped"}

\* C14: while the pod controller or a worker runs and the stop channel is not
\* closed, the registration record exists and names this initializer exactly
\* once; and once Run has deregistered without error and sent nil, no record
\* names this initializer.
RegistrationLifecycle ==
    /\ (Running /\ ~stopCh) => (reg # NilObj /\ SelfEntries(reg) = 1)
    /\ (run.deletes >= 1 /\ run.err = Nil /\ Emitted = <<Nil>>) =>
          (reg = NilObj \/ SelfEntries(reg) = 0)

\* Run found a record without this initializer, registered, started the
\* controller and all workers, and waits for the stop signal
RunningRegistered ==
    /\ run.pc = "wait"
    /\ ~stopCh
    /\ reg = InitializerConfig(<<"x.example.io", initializerName>>, 2)
    /\ \A w \in Workers : worker[w].pc \notin {"new", "stopped"}

\* C15: when addInitializationConfig has failed, Run goes straight to sending
\* the error, whatever the stop channel says, and sends that one value; the
\* controller and the workers are never started, no event is handled, no key
\* queued or processed, no pod written, and deleteInitializationConfig is not
\* called.
StartupFailure ==
    /\ [](run.err = "add" =>
            /\ run.pc \in {"add_ret", "send", "return", "done"}
            /\ ~run.started
            /\ run.i = 0
            /\ \A w \in Workers : worker[w] = NewWorker
            /\ run.deletes = 0
            /\ dispatcher = IdleDispatcher
            /\ Len(events) = created
            /\ queue.items = <<>> /\ queue.waiting = {} /\ queue.processing = {}
            /\ \A k \in Keys : live[k] \in {NilObj, template}
            /\ Emitted = IF run.pc \in {"return", "done"} THEN <<"add">> ELSE <<>>)
    /\ [][(run.pc = "add_ret" /\ run.err # Nil /\ run' # run) =>
             (run'.pc = "send" /\ run'.err = "add")]_vars
    /\ [][(run.pc = "send" /\ run.err = "add" /\ run' # run) =>
             (run'.pc = "return" /\ Emitted' = <<"add">>)]_vars

\* the registration failed, Run has sent its error and returned while the
\* stop channel is still open and an uninitialized pod sits untouched
FailedStartupReported ==
    /\ run.pc = "done"
    /\ run.err = "add"
    /\ errCh.received = <<"add">>
    /\ ~stopCh
    /\ \E k \in Keys : live[k] # NilObj /\ HasSentinel(live[k])

\* C16: Run sends at most one value, and only from its send statements; after
\* a successful registration it sends nothing while the stop channel is open;
\* after the stop signal it calls deleteInitializationConfig once and goes on
\* to send the outcome, nil exactly when the record was deleted; once Run has
\* returned it has sent exactly one value.
ShutdownOutcome ==
    /\ [](/\ Len(Emitted) <= 1
          /\ run.deletes <= 1
          /\ (run.oks >= 1 /\ ~stopCh) => Emitted = <<>>
          /\ run.pc \in {"return", "done"} => Len(Emitted) = 1
          /\ (run.pc \in {"return", "done"} /\ run.oks >= 1) =>
                (run.deletes = 1 /\ Emitted = <<run.err>>))
    /\ [][(run.pc = "delete" /\ run' # run) =>
             /\ stopCh
             /\ run'.pc = "send"
             /\ run'.deletes = run.deletes + 1
             /\ run'.err = Nil <=> (reg # NilObj /\ reg' = NilObj)
             /\ run'.err # Nil => reg' = reg]_vars
    /\ [][Emitted' # Emitted => (run.pc = "send" /\ run'.pc = "return")]_vars
    /\ [][(run.pc # "delete" /\ run.oks >= 1) => run'.deletes = run.deletes]_vars

\* the deregistration failed after the stop signal: the record is still
\* there, and Run has sent the error and returned
FailedDeregistrationReported ==
    /\ run.pc = "done"
    /\ stopCh
    /\ run.deletes = 1
    /\ run.err = "delete"
    /\ errCh.received = <<"delete">>
    /\ reg # NilObj

AllWorkersStopped ==
    /\ queue.shuttingDown
    /\ \A w \in Workers : worker[w].pc \in {"new", "stopped"}

\* C17: once the stop channel is closed, the queue is eventually shut down
\* and every worker has eventually stopped taking keys, whether or not the
\* deregistration succeeds and whether or not anyone reads the error channel.
WorkersStopOnShutdown == stopCh ~> AllWorkersStopped

\* the same, from the moment the channel has taken Run's final value
WorkersStopOnceOutcomeTaken == (stopCh /\ Emitted # <<>>) ~> AllWorkersStopped

\* the key of a workload pod with a container has been put into the queue
\* (by onPodAdded, or again by a worker that failed on it)
AwaitsInitialization(k) ==
    /\ k \in queue.waiting
    /\ live[k] # NilObj
    /\ IsWorkload(live[k])
    /\ live[k].containers # <<>>

Initialized(k) ==
    /\ live[k] # NilObj
    /\ ~HasSentinel(live[k])
    /\ queue.failures[k] = 0

\* C19: with every goroutine scheduled, the pod staying, and the Get and the
\* Patch of a worker that keeps trying eventually answered with success, a
\* workload pod with a container whose key was queued on its add event ends
\* up without the sentinel on the server and with the key's failure count
\* reset, however many fetches and patches fail in between.
QueuedPathConverges ==
    \A k \in Keys : AwaitsInitialization(k) ~> Initialized(k)

\* a worker's attempt on a pod that carried the sentinel has ended without
\* error: the sentinel is off the pod on the server and the failure count of
\* the key, raised when it was queued, is back at zero
ConvergedQueuedPod ==
    \E w \in Workers :
       /\ worker[w].pc = "done"
       /\ ~worker[w].err
       /\ worker[w].submitted
       /\ HasSentinel(worker[w].orig)
       /\ Initialized(worker[w].key)

====
